---- MODULE Spec2Model ----
(***************************************************************************)
(* Model of the PASCAL VOC dataset adapters of ssd.pytorch:                *)
(*   src/voc.py       ("voc"):      AnnotationTransform emits pixel        *)
(*                                  coordinates and the class NAME          *)
(*   src/data/voc.py  ("data.voc"): AnnotationTransform emits coordinates  *)
(*                                  divided by W / H and the class INDEX,   *)
(*                                  VOCDetection.show draws sub-parts,      *)
(*                                  detection_collate batches samples       *)
(* Python strings that the code processes character by character (names,   *)
(* numeric texts, manifest lines) are sequences of one-character strings.  *)
(* A Python exception is a result record whose error field names it.       *)
(* Division is Python 3's: int / int is the exact quotient, kept as the     *)
(* pair of numerator and denominator.                                       *)
(***************************************************************************)
EXTENDS Integers, Sequences, FiniteSets, TLC

VARIABLES
    module,   \* which source file's classes are in use: "voc" or "data.voc"
    self,     \* the VOCDetection object's attributes
    disk,     \* files under root: manifest text, annotation trees, images
    call,     \* the call the client makes: the operation and its arguments
    ret,      \* what the call returned or raised, once it has run
    workers   \* per worker: the frame of its __getitem__ call in progress

vars == <<module, self, disk, call, ret, workers>>

(*************************** bounds of the model ***************************)
MaxObjects == 2      \* <object> nodes per annotation tree given to the parser
MaxFileObjects == 1  \* <object> nodes per annotation file read by __getitem__
MaxManifest == 4     \* characters in a manifest file
MaxParts == 6        \* <part> nodes under one <object> in show's trees
MaxShowObjects == 2  \* <object> nodes in show's trees
MaxBatch == 3        \* samples in a batch given to detection_collate
MaxAnnos == 2        \* records in one sample's annotation list
NumWorkers == 2      \* concurrent __getitem__ callers
ResizeTo == 300      \* side of the square a resizing input transform yields

(**************************** generic helpers ******************************)
None == [kind |-> "None"]

Ok(v) == [error |-> "none", val |-> v]

Raise(e) == [error |-> e, val |-> <<>>]

IsOk(r) == r.error = "none"

\* Python values carry their type: an int, a str, a float (the exact quotient
\* num / den of a true division), a list
PyInt(n) == [int |-> n]

PyStr(s) == [str |-> s]

PyFloat(num, den) == [num |-> num, den |-> den]

PyList(items) == [list |-> items]

Range(s) == {s[i] : i \in 1..Len(s)}

RECURSIVE SeqsUpTo(_, _)
SeqsUpTo(S, n) ==
    IF n = 0 THEN {<<>>}
    ELSE LET shorter == SeqsUpTo(S, n - 1)
         IN  shorter \cup {Append(s, x) : s \in {t \in shorter : Len(t) = n - 1}, x \in S}

(**************************** Python str methods ***************************)
UpperCase == <<"A","B","C","D","E","F","G","H","I","J","K","L","M","N","O","P","Q","R","S","T","U","V","W","X","Y","Z">>

LowerCase == <<"a","b","c","d","e","f","g","h","i","j","k","l","m","n","o","p","q","r","s","t","u","v","w","x","y","z">>

Whitespace == {" ", "\t", "\n", "\r"}

\* str.lower()
Lower(s) ==
    [i \in 1..Len(s) |->
        IF \E k \in 1..Len(UpperCase) : UpperCase[k] = s[i]
        THEN LowerCase[CHOOSE k \in 1..Len(UpperCase) : UpperCase[k] = s[i]]
        ELSE s[i]]

\* str.strip(chars): drop the leading and the trailing characters in chars
RECURSIVE LStrip(_, _)
LStrip(s, chars) ==
    IF s # <<>> /\ Head(s) \in chars THEN LStrip(Tail(s), chars) ELSE s

RECURSIVE RStrip(_, _)
RStrip(s, chars) ==
    IF s # <<>> /\ s[Len(s)] \in chars THEN RStrip(SubSeq(s, 1, Len(s) - 1), chars) ELSE s

Strip(s, chars) == RStrip(LStrip(s, chars), chars)

Digits == <<"0","1","2","3","4","5","6","7","8","9">>

DigitVal(c) == (CHOOSE k \in 1..10 : Digits[k] = c) - 1

\* int(text) of a decimal text
RECURSIVE IntOf(_)
IntOf(text) ==
    IF text = <<>> THEN 0
    ELSE 10 * IntOf(SubSeq(text, 1, Len(text) - 1)) + DigitVal(text[Len(text)])

(************************ xml.etree.ElementTree ****************************)
\* An Element: its tag, its text and its child elements in document order.
Element(tag, text, kids) == [tag |-> tag, text |-> text, kids |-> kids]

NoElement == Element("None", <<>>, <<>>)

\* Element.find(tag): the first DIRECT child with that tag, or None
Find(el, tag) ==
    IF \E i \in 1..Len(el.kids) : el.kids[i].tag = tag
    THEN el.kids[CHOOSE i \in 1..Len(el.kids) :
                    /\ el.kids[i].tag = tag
                    /\ \A j \in 1..(i - 1) : el.kids[j].tag # tag]
    ELSE NoElement

\* Element.iter(tag): the element and all its descendants with that tag, in
\* document order
RECURSIVE Iter(_, _)
RECURSIVE IterKids(_, _)
Iter(el, tag) ==
    (IF el.tag = tag THEN <<el>> ELSE <<>>) \o IterKids(el.kids, tag)

IterKids(kids, tag) ==
    IF kids = <<>> THEN <<>>
    ELSE Iter(Head(kids), tag) \o IterKids(Tail(kids), tag)

(***************************** module constants ****************************)
\* VOC_CLASSES of src/voc.py: '__background__' is index 0
VOC_CLASSES_voc ==
    << <<"_","_","b","a","c","k","g","r","o","u","n","d","_","_">>,
       <<"a","e","r","o","p","l","a","n","e">>,
       <<"b","i","c","y","c","l","e">>,
       <<"b","i","r","d">>,
       <<"b","o","a","t">>,
       <<"b","o","t","t","l","e">>,
       <<"b","u","s">>,
       <<"c","a","r">>,
       <<"c","a","t">>,
       <<"c","h","a","i","r">>,
       <<"c","o","w">>,
       <<"d","i","n","i","n","g","t","a","b","l","e">>,
       <<"d","o","g">>,
       <<"h","o","r","s","e">>,
       <<"m","o","t","o","r","b","i","k","e">>,
       <<"p","e","r","s","o","n">>,
       <<"p","o","t","t","e","d","p","l","a","n","t">>,
       <<"s","h","e","e","p">>,
       <<"s","o","f","a">>,
       <<"t","r","a","i","n">>,
       <<"t","v","m","o","n","i","t","o","r">> >>

\* VOC_CLASSES of src/data/voc.py: no background entry
VOC_CLASSES_data == Tail(VOC_CLASSES_voc)

VOC_CLASSES(m) == IF m = "voc" THEN VOC_CLASSES_voc ELSE VOC_CLASSES_data

\* COLORS: the palette, the same in both files
COLORS ==
    << <<255, 0, 0, 128>>, <<0, 255, 0, 128>>, <<0, 0, 255, 128>>,
       <<0, 255, 255, 128>>, <<255, 0, 255, 128>>, <<255, 255, 0, 128>> >>

(************************** AnnotationTransform ****************************)
\* dict(zip(VOC_CLASSES, range(len(VOC_CLASSES)))): name -> 0-based position
DefaultClassToIndex(m) ==
    [n \in Range(VOC_CLASSES(m)) |->
        (CHOOSE i \in 1..Len(VOC_CLASSES(m)) : VOC_CLASSES(m)[i] = n) - 1]

\* AnnotationTransform.__init__(class_to_index=None, keep_difficult=False)
\* (`class_to_index or dict(...)`: None and an empty dict both give the default)
AnnotationTransformInit(m, class_to_index, keep_difficult) ==
    [kind |-> "AnnotationTransform",
     class_to_index |->
        IF class_to_index.kind = "None" \/ DOMAIN class_to_index.items = {}
        THEN DefaultClassToIndex(m) ELSE class_to_index.items,
     keep_difficult |-> keep_difficult]

\* (mutant) the difficult flag alone decides, keep_difficult is ignored
Skipped_IgnoreKeep(at, obj) ==
    IntOf(Find(obj, "difficult").text) = 1

\* the test of the loop's `continue`: int(obj.find('difficult').text) == 1
Skipped(at, obj) ==
    LET difficult == IntOf(Find(obj, "difficult").text) = 1
    IN  ~at.keep_difficult /\ difficult

\* (mutant) the 1-based source values kept as they are
PixelBox_OneBased(bbox) ==
    [i \in 1..Len(bbox.kids) |-> PyInt(IntOf(bbox.kids[i].text))]

\* [int(bb.text) - 1 for bb in bbox]
PixelBox(bbox) ==
    [i \in 1..Len(bbox.kids) |-> PyInt(IntOf(bbox.kids[i].text) - 1)]

\* src/data/voc.py: enumerate(bbox), i even -> /W, i odd -> /H (true division,
\* kept exact as numerator and denominator)
NormBox(bbox, W, H) ==
    [k \in 1..Len(bbox.kids) |->
        IF (k - 1) % 2 = 0
        THEN PyFloat(IntOf(bbox.kids[k].text) - 1, W)
        ELSE PyFloat(IntOf(bbox.kids[k].text) - 1, H)]

\* src/voc.py, body of the loop for one kept object: name is obj[0], bbox is
\* obj[4]; the record ends with the NAME, class_to_ind is not consulted
RecordVoc(at, obj) ==
    IF Len(obj.kids) < 5 THEN Raise("IndexError")
    ELSE LET name == Strip(Lower(obj.kids[1].text), Whitespace)
             bbox == obj.kids[5]
         IN  Ok(Append(PixelBox(bbox), PyStr(name)))

\* (mutant) class_to_index.get(name, 0) in place of class_to_index[name]
RecordData_Get(at, obj, W, H) ==
    LET name == Strip(Lower(Find(obj, "name").text), Whitespace)
        bndbox == NormBox(Find(obj, "bndbox"), W, H)
    IN  IF name \notin DOMAIN at.class_to_index THEN Ok(Append(bndbox, PyInt(0)))
        ELSE Ok(Append(bndbox, PyInt(at.class_to_index[name])))

\* src/data/voc.py, body of the loop for one kept object
RecordData(at, obj, W, H) ==
    LET name == Strip(Lower(Find(obj, "name").text), Whitespace)
        bbox == Find(obj, "bndbox")
        bndbox == NormBox(bbox, W, H)
    IN  IF name \notin DOMAIN at.class_to_index THEN Raise("KeyError")
        ELSE Ok(Append(bndbox, PyInt(at.class_to_index[name])))

\* the loop over target.iter('object'), res accumulated in document order;
\* an exception in one iteration ends the call
RECURSIVE ParseLoop(_, _, _, _, _, _)
ParseLoop(m, at, objs, W, H, res) ==
    IF objs = <<>> THEN Ok(PyList(res))
    ELSE LET obj == Head(objs)
         IN  IF Skipped(at, obj) THEN ParseLoop(m, at, Tail(objs), W, H, res)
             ELSE LET rec == IF m = "voc" THEN RecordVoc(at, obj)
                             ELSE RecordData(at, obj, W, H)
                  IN  IF ~IsOk(rec) THEN rec
                      ELSE ParseLoop(m, at, Tail(objs), W, H, Append(res, rec.val))

\* AnnotationTransform.__call__(target) / __call__(target, C, H, W)
AnnotationTransformCall(m, at, target, C, H, W) ==
    ParseLoop(m, at, Iter(target, "object"), W, H, <<>>)

(******************************* the disk **********************************)
\* os.path.join(root, dataset_name, dir, '%s' + ext): a path template
PathTemplate(root, dataset_name, dir, ext) ==
    [root |-> root, dataset_name |-> dataset_name, dir |-> dir, ext |-> ext]

\* template % stem
Format(template, stem) ==
    [root |-> template.root, dataset_name |-> template.dataset_name,
     dir |-> template.dir, stem |-> stem, ext |-> template.ext]

\* open / ET.parse / Image.open of a path: the file's content, or the error
Open(d, path) ==
    IF /\ path.root = d.root
       /\ path.dataset_name \in DOMAIN d.datasets
       /\ path.dir \in DOMAIN d.datasets[path.dataset_name]
       /\ path.stem \in DOMAIN d.datasets[path.dataset_name][path.dir]
    THEN Ok(d.datasets[path.dataset_name][path.dir][path.stem])
    ELSE Raise("FileNotFoundError")

\* (mutant) a last line that no newline ends is lost
RECURSIVE ReadLines_DropLast(_, _)
ReadLines_DropLast(text, line) ==
    IF text = <<>> THEN <<>>
    ELSE IF Head(text) = "\n"
         THEN <<Append(line, "\n")>> \o ReadLines_DropLast(Tail(text), <<>>)
         ELSE ReadLines_DropLast(Tail(text), Append(line, Head(text)))

\* f.readlines(): the text cut after each newline, a last line without one kept
RECURSIVE ReadLines(_, _)
ReadLines(text, line) ==
    IF text = <<>> THEN (IF line = <<>> THEN <<>> ELSE <<line>>)
    ELSE IF Head(text) = "\n"
         THEN <<Append(line, "\n")>> \o ReadLines(Tail(text), <<>>)
         ELSE ReadLines(Tail(text), Append(line, Head(text)))

(******************************* VOCDetection ******************************)
\* VOCDetection.__init__: the attributes, ids read from the manifest
VOCDetectionInit(d, root, image_set, transform, target_transform, dataset_name) ==
    LET imgsetpath == PathTemplate(root, dataset_name, "ImageSets/Main", ".txt")
        f == Open(d, Format(imgsetpath, image_set))
    IN  IF ~IsOk(f) THEN f
        ELSE LET lines == ReadLines(f.val, <<>>)
             IN  Ok([root |-> root,
                     image_set |-> image_set,
                     transform |-> transform,
                     target_transform |-> target_transform,
                     annopath |-> PathTemplate(root, dataset_name, "Annotations", ".xml"),
                     imgpath |-> PathTemplate(root, dataset_name, "JPEGImages", ".jpg"),
                     imgsetpath |-> imgsetpath,
                     ids |-> [i \in 1..Len(lines) |-> Strip(lines[i], {"\n"})]])

\* VOCDetection.__len__
VOCDetectionLen(ds) == Len(ds.ids)

\* Image.open(path).convert('RGB'): a PIL image; size is (width, height)
PILImage(file, stem) ==
    [kind |-> "PIL", mode |-> "RGB", size |-> file.size, src |-> stem]

\* a torch tensor: its shape and (src) the data it holds
Tensor(shape, src) == [kind |-> "tensor", shape |-> shape, src |-> src]

\* the caller's input transform applied to a PIL image: a (C, H, W) tensor, or
\* a resized one with a leading batch axis
ApplyTransform(t, img) ==
    IF t.kind = "ToTensor"
    THEN Tensor(<<3, img.size[2], img.size[1]>>, img.src)
    ELSE Tensor(<<1, 3, ResizeTo, ResizeTo>>, img.src)

\* Tensor.squeeze_(0): drop axis 0 when it has size 1
Squeeze0(t) ==
    IF t.shape # <<>> /\ t.shape[1] = 1
    THEN Tensor(Tail(t.shape), t.src) ELSE t

\* self.target_transform(target) of src/voc.py
TargetTransformVoc(ds, target) ==
    AnnotationTransformCall("voc", ds.target_transform, target, 0, 0, 0)

\* self.target_transform(target, *img.size()) of src/data/voc.py: a PIL image's
\* size is a tuple, not callable; the call needs exactly C, H, W
TargetTransformData(ds, target, img) ==
    IF img.kind # "tensor" THEN Raise("TypeError")
    ELSE IF Len(img.shape) # 3 THEN Raise("TypeError")
    ELSE AnnotationTransformCall("data.voc", ds.target_transform, target,
                                 img.shape[1], img.shape[2], img.shape[3])

\* the lines of __getitem__ up to the two transforms: (img, target) as loaded
Load(ds, d, index) ==
    IF ~(index \in 0..(Len(ds.ids) - 1)) THEN Raise("IndexError")
    ELSE LET img_id == ds.ids[index + 1]
             xml == Open(d, Format(ds.annopath, img_id))
             jpg == Open(d, Format(ds.imgpath, img_id))
         IN  IF ~IsOk(xml) THEN xml
             ELSE IF ~IsOk(jpg) THEN jpg
             ELSE Ok([img |-> PILImage(jpg.val, img_id), target |-> xml.val])

\* `if self.transform is not None: img = self.transform(img)` (src/voc.py),
\* `... .squeeze_(0)` (src/data/voc.py)
TransformStep(m, ds, img) ==
    IF ds.transform.kind = "None" THEN img
    ELSE IF m = "voc" THEN ApplyTransform(ds.transform, img)
    ELSE Squeeze0(ApplyTransform(ds.transform, img))

\* `if self.target_transform is not None: target = self.target_transform(...)`
TargetStep(m, ds, target, img) ==
    IF ds.target_transform.kind = "None" THEN Ok(target)
    ELSE IF m = "voc" THEN TargetTransformVoc(ds, target)
    ELSE TargetTransformData(ds, target, img)

\* VOCDetection.__getitem__(index): (img, target), or the exception raised
VOCDetectionGetItem(m, ds, d, index) ==
    LET loaded == Load(ds, d, index)
    IN  IF ~IsOk(loaded) THEN loaded
        ELSE LET img == TransformStep(m, ds, loaded.val.img)
                 target == TargetStep(m, ds, loaded.val.target, img)
             IN  IF ~IsOk(target) THEN target
                 ELSE Ok([img |-> img, target |-> target.val])

(***************************** VOCDetection.show ***************************)
\* bndboxs of one object: (name, box) of the object, then, in src/data/voc.py
\* with subparts and a <part> child, of every part under it
BndBoxs(m, obj, subparts) ==
    LET bbox == Find(obj, "bndbox")
        parts == Iter(obj, "part")
    IN  IF m = "voc"
        THEN <<[name |-> PyStr(Find(obj, "name").text), bndbox |-> PixelBox(bbox)]>>
        ELSE <<[name |-> PyStr(Strip(Lower(Find(obj, "name").text), Whitespace)),
                bndbox |-> PixelBox(bbox)]>>
             \o (IF subparts /\ Find(obj, "part") # NoElement
                 THEN [k \in 1..Len(parts) |->
                         [name |-> PyStr(Strip(Lower(Find(parts[k], "name").text), Whitespace)),
                          bndbox |-> PixelBox(Find(parts[k], "bndbox"))]]
                 ELSE <<>>)

\* draw.rectangle(bndbox, outline=COLORS[i % len(COLORS)]) and
\* draw.text(bndbox[:2], name, fill=COLORS[(i + 3) % len(COLORS)])
DrawCalls(box, i) ==
    [rectangle |-> box.bndbox,
     outline |-> COLORS[(i % Len(COLORS)) + 1],
     xy |-> SubSeq(box.bndbox, 1, 2),
     text |-> box.name,
     fill |-> COLORS[((i + 3) % Len(COLORS)) + 1]]

\* (mutant) i is advanced once per object, not once per box drawn
DrawBoxes_SameIndex(boxes, i) == [k \in 1..Len(boxes) |-> DrawCalls(boxes[k], i)]

\* `for name, bndbox in bndboxs: ...; i += 1`, from counter value i
DrawBoxes(boxes, i) == [k \in 1..Len(boxes) |-> DrawCalls(boxes[k], i + k - 1)]

\* the loop over target.iter('object'); i counts the boxes drawn so far
RECURSIVE ShowLoop(_, _, _, _, _)
ShowLoop(m, objs, subparts, i, drawn) ==
    IF objs = <<>> THEN drawn
    ELSE LET boxes == BndBoxs(m, Head(objs), subparts)
         IN  ShowLoop(m, Tail(objs), subparts, i + Len(boxes),
                      drawn \o DrawBoxes(boxes, i))

\* VOCDetection.show(index, subparts): the image with what was drawn on it
VOCDetectionShow(m, ds, d, index, subparts) ==
    LET loaded == Load(ds, d, index)
    IN  IF ~IsOk(loaded) THEN loaded
        ELSE Ok([img |-> loaded.val.img,
                 drawn |-> ShowLoop(m, Iter(loaded.val.target, "object"),
                                    subparts, 0, <<>>)])

(***************************** detection_collate ***************************)
\* torch.is_tensor(x)
IsTensor(x) == "kind" \in DOMAIN x /\ x.kind = "tensor"

\* isinstance(x, type([]))
IsList(x) == "list" \in DOMAIN x

IsNumber(x) == DOMAIN x \in {{"int"}, {"num", "den"}}

\* torch.Tensor(a) of a list of numbers: a tensor of shape (len(a),)
TorchTensor(a) ==
    IF \A i \in 1..Len(a) : IsNumber(a[i]) THEN Ok(Tensor(<<Len(a)>>, a))
    ELSE Raise("TypeError")

\* torch.stack(tensors, 0): a new leading axis; no tensors, or tensors of
\* different shapes, are an error
TorchStack(tensors) ==
    IF tensors = <<>> THEN Raise("RuntimeError")
    ELSE IF \E i \in 1..Len(tensors) : tensors[i].shape # tensors[1].shape
    THEN Raise("RuntimeError")
    ELSE Ok(Tensor(<<Len(tensors)>> \o tensors[1].shape,
                   [i \in 1..Len(tensors) |-> tensors[i].src]))

\* `annos = [torch.Tensor(a) for a in tup]; torch.stack(annos, 0)`
StackAnnos(tup) ==
    IF \E i \in 1..Len(tup.list) : ~IsOk(TorchTensor(tup.list[i]))
    THEN Raise("TypeError")
    ELSE TorchStack([i \in 1..Len(tup.list) |-> TorchTensor(tup.list[i]).val])

\* (mutant) images that differ from the first in shape are cropped to it
StackImgs_Crop(imgs) ==
    IF imgs = <<>> THEN Raise("RuntimeError")
    ELSE Ok(Tensor(<<Len(imgs)>> \o imgs[1].shape,
                   [i \in 1..Len(imgs) |-> imgs[i].src]))

\* `torch.stack(imgs, 0)` of the return statement
StackImgs(imgs) == TorchStack(imgs)

\* the two nested loops: every element of every sample goes to imgs if it is
\* a tensor, is stacked and goes to targets if it is a list, is left out else
RECURSIVE CollateLoop(_, _, _, _)
CollateLoop(batch, j, imgs, targets) ==
    IF batch = <<>> THEN Ok([imgs |-> imgs, targets |-> targets])
    ELSE LET sample == Head(batch)
         IN  IF j > Len(sample) THEN CollateLoop(Tail(batch), 1, imgs, targets)
             ELSE LET tup == sample[j]
                  IN  IF IsTensor(tup)
                      THEN CollateLoop(batch, j + 1, Append(imgs, tup), targets)
                      ELSE IF IsList(tup)
                      THEN LET stacked == StackAnnos(tup)
                           IN  IF ~IsOk(stacked) THEN stacked
                               ELSE CollateLoop(batch, j + 1, imgs,
                                                Append(targets, stacked.val))
                      ELSE CollateLoop(batch, j + 1, imgs, targets)

\* detection_collate(batch): (torch.stack(imgs, 0), targets)
DetectionCollate(batch) ==
    LET acc == CollateLoop(batch, 1, <<>>, <<>>)
    IN  IF ~IsOk(acc) THEN acc
        ELSE LET stacked == StackImgs(acc.val.imgs)
             IN  IF ~IsOk(stacked) THEN stacked
                 ELSE Ok([imgs |-> stacked.val, targets |-> acc.val.targets])

(************************** inputs of the model ****************************)
Modules == {"voc", "data.voc"}

\* str(n): the decimal text of n >= 0, as the annotation files hold numbers
RECURSIVE Str(_)
Str(n) == IF n < 10 THEN <<Digits[n + 1]>> ELSE Append(Str(n \div 10), Digits[(n % 10) + 1])

\* <name> texts as found in files: exact, with case and blanks, out of vocabulary
RawNames == {<<"c","a","t">>, <<" ","D","o","g"," ">>, <<"u","f","o">>}

\* (xmin, ymin, xmax, ymax), 1-based pixels
Boxes == {<<10, 20, 110, 220>>, <<101, 1, 200, 100>>}

\* (width, height) of the image files
ImageSizes == {<<200, 100>>, <<500, 375>>}

BndBox(box) ==
    Element("bndbox", <<>>,
        <<Element("xmin", Str(box[1]), <<>>), Element("ymin", Str(box[2]), <<>>),
          Element("xmax", Str(box[3]), <<>>), Element("ymax", Str(box[4]), <<>>)>>)

\* a <part> of an object: name and bndbox
PartNode(name, box) ==
    Element("part", <<>>, <<Element("name", name, <<>>), BndBox(box)>>)

\* an <object> in the VOC2007 layout: name, pose, truncated, difficult, bndbox,
\* then its parts
ObjectNode(name, difficult, box, parts) ==
    Element("object", <<>>,
        <<Element("name", name, <<>>),
          Element("pose", <<"L","e","f","t">>, <<>>),
          Element("truncated", <<"0">>, <<>>),
          Element("difficult", Str(difficult), <<>>),
          BndBox(box)>> \o parts)

\* an <annotation> root: the file name, then the objects
AnnotationNode(objs) ==
    Element("annotation", <<>>, <<Element("filename", <<"x">>, <<>>)>> \o objs)

PlainObjects ==
    {ObjectNode(n, d, b, <<>>) : n \in RawNames, d \in {0, 1}, b \in Boxes}

Trees(n) == {AnnotationNode(objs) : objs \in SeqsUpTo(PlainObjects, n)}

Train == <<"t","r","a","i","n">>

\* a VOCdevkit directory holding one dataset, VOC2007
MkDisk(manifest, annotations, jpegs) ==
    [root |-> "VOCdevkit",
     datasets |-> [VOC2007 |->
        ("ImageSets/Main" :> (Train :> manifest)) @@
        ("Annotations" :> annotations) @@
        ("JPEGImages" :> jpegs)]]

InputTransforms == {None, [kind |-> "ToTensor"], [kind |-> "ResizeBatch"]}

TargetTransforms(m) ==
    {None} \cup {AnnotationTransformInit(m, None, k) : k \in BOOLEAN}

\* the frame of a __getitem__ call: where it stands and its local variables
Frame(pc, index, img_id, target, img, out) ==
    [pc |-> pc, index |-> index, img_id |-> img_id, target |-> target,
     img |-> img, out |-> out]

IdleFrame == Frame("idle", 0, <<>>, None, None, None)

NoCall == [op |-> "none"]

\* VOCDetection(root, 'train', transform, target_transform) on disk d
Construct(d, transform, target_transform) ==
    VOCDetectionInit(d, "VOCdevkit", Train, transform, target_transform, "VOC2007")

(************************ the parser called directly ***********************)
OneFileDisk ==
    MkDisk(<<"a", "\n">>,
           (<<"a">> :> AnnotationNode(<<>>)),
           (<<"a">> :> [size |-> <<200, 100>>]))

InitParse ==
    /\ module \in Modules
    /\ disk = OneFileDisk
    /\ \E k \in BOOLEAN :
          self = Construct(disk, None, AnnotationTransformInit(module, None, k)).val
    /\ \E target \in Trees(MaxObjects), size \in ImageSizes :
          call = [op |-> "parse",
                  args |-> [target |-> target, C |-> 3, H |-> size[2], W |-> size[1]]]
    /\ ret = NoCall
    /\ workers = [w \in 1..NumWorkers |-> IdleFrame]

\* target_transform(target) / target_transform(target, C, H, W)
Parse ==
    /\ call.op = "parse"
    /\ ret = NoCall
    /\ ret' = [op |-> "parse",
               out |-> AnnotationTransformCall(module, self.target_transform,
                           call.args.target, call.args.C, call.args.H, call.args.W)]
    /\ UNCHANGED <<module, self, disk, call, workers>>

NextParse == Parse

SpecParse == InitParse /\ [][NextParse]_vars

(****************************** the dataset ********************************)
SampleId == <<"0","0","0","0","0","1">>

\* one sample, 000001, whose annotation and image are drawn from the inputs
InitDataset ==
    /\ module \in Modules
    /\ \E tree \in Trees(MaxFileObjects), size \in ImageSizes :
          disk = MkDisk(Append(SampleId, "\n"),
                        (SampleId :> tree), (SampleId :> [size |-> size]))
    /\ \E t \in InputTransforms, tt \in TargetTransforms(module) :
          self = Construct(disk, t, tt).val
    /\ call = [op |-> "getitem", args |-> [index |-> 0]]
    /\ ret = NoCall
    /\ workers = [w \in 1..NumWorkers |-> IdleFrame]

\* dataset[index]
GetItem ==
    /\ call.op = "getitem"
    /\ ret = NoCall
    /\ ret' = [op |-> "getitem",
               out |-> VOCDetectionGetItem(module, self, disk, call.args.index)]
    /\ UNCHANGED <<module, self, disk, call, workers>>

\* len(dataset)
LenCall ==
    /\ call.op = "len"
    /\ ret = NoCall
    /\ ret' = [op |-> "len", out |-> Ok(PyInt(VOCDetectionLen(self)))]
    /\ UNCHANGED <<module, self, disk, call, workers>>

\* dataset.show(index) / dataset.show(index, subparts)
Show ==
    /\ call.op = "show"
    /\ ret = NoCall
    /\ ret' = [op |-> "show",
               out |-> VOCDetectionShow(module, self, disk, call.args.index,
                                        call.args.subparts)]
    /\ UNCHANGED <<module, self, disk, call, workers>>

Next == GetItem

Spec == InitDataset /\ [][Next]_vars

(************************* manifests of K lines ****************************)
ManifestChars == {"a", "b", "\n"}

\* the lines of a manifest text, newline dropped: between two newlines, and
\* after the last one when text follows it
NewlineAt(text) == {i \in 1..Len(text) : text[i] = "\n"}

LineCount(text) ==
    Cardinality(NewlineAt(text))
        + (IF text # <<>> /\ text[Len(text)] # "\n" THEN 1 ELSE 0)

LineOf(text, n) ==
    LET ends == NewlineAt(text) \cup {Len(text) + 1}
        stop == CHOOSE p \in ends : Cardinality({q \in ends : q < p}) = n - 1
        start == IF n = 1 THEN 1
                 ELSE 1 + (CHOOSE p \in ends : Cardinality({q \in ends : q < p}) = n - 2)
    IN  SubSeq(text, start, stop - 1)

ManifestLines(text) == [n \in 1..LineCount(text) |-> LineOf(text, n)]

OnePartTree ==
    AnnotationNode(<<ObjectNode(<<"c","a","t">>, 0, <<10, 20, 110, 220>>,
                       <<PartNode(<<"h","e","a","d">>, <<10, 20, 50, 60>>)>>)>>)

\* the calls a client can make on the dataset: len, get and show of every
\* position, and of the first one past the end
IndexCalls ==
    UNION {{[op |-> "len", args |-> <<>>],
            [op |-> "getitem", args |-> [index |-> i]],
            [op |-> "show", args |-> [index |-> i, subparts |-> module = "data.voc"]]} :
           i \in 0..Len(self.ids)}

\* a manifest drawn from the inputs, a file pair on disk for each of its lines
InitIndex ==
    /\ module \in Modules
    /\ \E manifest \in SeqsUpTo(ManifestChars, MaxManifest) :
          LET stems == Range(ManifestLines(manifest))
          IN  disk = MkDisk(manifest,
                            [id \in stems |-> OnePartTree],
                            [id \in stems |-> [size |-> <<500, 375>>]])
    /\ self = Construct(disk, None, None).val
    /\ call \in IndexCalls
    /\ ret = NoCall
    /\ workers = [w \in 1..NumWorkers |-> IdleFrame]

\* the client, its call having returned or raised, makes another one
Again ==
    /\ ret # NoCall
    /\ call' \in IndexCalls
    /\ ret' = NoCall
    /\ UNCHANGED <<module, self, disk, workers>>

NextIndex == LenCall \/ GetItem \/ Show \/ Again

SpecIndex == InitIndex /\ [][NextIndex]_vars

(************************* trees with sub-parts ****************************)
PartsOf(n) == [k \in 1..n |-> PartNode(<<"h","e","a","d">>, <<10, 20, 50, 60>>)]

ShowObjects ==
    {ObjectNode(<<"c","a","t">>, 0, <<10, 20, 110, 220>>, PartsOf(n)) : n \in 0..MaxParts}

ShowTrees == {AnnotationNode(objs) : objs \in SeqsUpTo(ShowObjects, MaxShowObjects)}

InitShow ==
    /\ module \in Modules
    /\ \E tree \in ShowTrees :
          disk = MkDisk(Append(SampleId, "\n"),
                        (SampleId :> tree), (SampleId :> [size |-> <<500, 375>>]))
    /\ self = Construct(disk, None, None).val
    /\ \E sp \in BOOLEAN :
          /\ module = "voc" => ~sp
          /\ call = [op |-> "show", args |-> [index |-> 0, subparts |-> sp]]
    /\ ret = NoCall
    /\ workers = [w \in 1..NumWorkers |-> IdleFrame]

NextShow == Show

SpecShow == InitShow /\ [][NextShow]_vars

(********************************* batches *********************************)
\* (C, H, W) of the image tensors
ImageShapes == {<<3, 100, 200>>, <<3, 300, 300>>}

\* an annotation list of k records; their content tells the lists apart
AnnosOf(k) ==
    PyList([j \in 1..k |->
        <<PyFloat(j, 10), PyFloat(j, 10), PyFloat(j + k, 10), PyFloat(j + k, 10),
          PyInt(k)>>])

Samples ==
    {<<Tensor(shape, <<"pixels", shape, k>>), AnnosOf(k)>> :
        shape \in ImageShapes, k \in 0..MaxAnnos}

InitCollate ==
    /\ module = "data.voc"
    /\ disk = OneFileDisk
    /\ self = Construct(disk, [kind |-> "ToTensor"],
                        AnnotationTransformInit(module, None, FALSE)).val
    /\ \E batch \in SeqsUpTo(Samples, MaxBatch) :
          call = [op |-> "collate", args |-> [batch |-> batch]]
    /\ ret = NoCall
    /\ workers = [w \in 1..NumWorkers |-> IdleFrame]

\* detection_collate(batch)
Collate ==
    /\ call.op = "collate"
    /\ ret = NoCall
    /\ ret' = [op |-> "collate", out |-> DetectionCollate(call.args.batch)]
    /\ UNCHANGED <<module, self, disk, call, workers>>

NextCollate == Collate

SpecCollate == InitCollate /\ [][NextCollate]_vars

(********************* __getitem__ from several workers ********************)
IdA == <<"a">>

IdB == <<"b">>

\* two samples that differ in annotation and in image size
TwoFileDisk ==
    MkDisk(<<"a", "\n", "b", "\n">>,
           (IdA :> AnnotationNode(<<ObjectNode(<<"c","a","t">>, 0, <<10, 20, 110, 220>>, <<>>)>>)) @@
           (IdB :> AnnotationNode(<<ObjectNode(<<" ","D","o","g"," ">>, 1, <<101, 1, 200, 100>>, <<>>),
                                    ObjectNode(<<"u","f","o">>, 0, <<10, 20, 110, 220>>, <<>>)>>)),
           (IdA :> [size |-> <<500, 375>>]) @@ (IdB :> [size |-> <<200, 100>>]))

InitWorkers ==
    /\ module \in Modules
    /\ disk = TwoFileDisk
    /\ \E t \in InputTransforms, tt \in TargetTransforms(module) :
          self = Construct(disk, t, tt).val
    /\ call = NoCall
    /\ ret = NoCall
    /\ workers = [w \in 1..NumWorkers |-> IdleFrame]

\* worker w enters dataset[index]
Enter(w) ==
    /\ workers[w].pc = "idle"
    /\ \E index \in 0..(Len(self.ids) - 1) :
          workers' = [workers EXCEPT ![w] = Frame("img_id", index, <<>>, None, None, None)]
    /\ UNCHANGED <<module, self, disk, call, ret>>

\* (mutant) the identifier is taken out of the list: self.ids.pop(index)
StepId_Pop(w) ==
    /\ workers[w].pc = "img_id"
    /\ workers[w].index < Len(self.ids)
    /\ workers' = [workers EXCEPT ![w].img_id = self.ids[workers[w].index + 1],
                                  ![w].pc = "parse"]
    /\ self' = [self EXCEPT !.ids =
                  [i \in 1..(Len(self.ids) - 1) |->
                      IF i <= workers[w].index THEN self.ids[i] ELSE self.ids[i + 1]]]
    /\ UNCHANGED <<module, disk, call, ret>>

\* img_id = self.ids[index]
StepId(w) ==
    /\ workers[w].pc = "img_id"
    /\ workers' = [workers EXCEPT ![w].img_id = self.ids[workers[w].index + 1],
                                  ![w].pc = "parse"]
    /\ UNCHANGED <<module, self, disk, call, ret>>

\* target = ET.parse(self._annopath % img_id).getroot()
StepParse(w) ==
    /\ workers[w].pc = "parse"
    /\ LET xml == Open(disk, Format(self.annopath, workers[w].img_id))
       IN  workers' = [workers EXCEPT
                ![w] = IF IsOk(xml) THEN [@ EXCEPT !.target = xml.val, !.pc = "open"]
                       ELSE [@ EXCEPT !.out = xml, !.pc = "done"]]
    /\ UNCHANGED <<module, self, disk, call, ret>>

\* img = Image.open(self._imgpath % img_id).convert('RGB')
StepOpen(w) ==
    /\ workers[w].pc = "open"
    /\ LET jpg == Open(disk, Format(self.imgpath, workers[w].img_id))
       IN  workers' = [workers EXCEPT
                ![w] = IF IsOk(jpg)
                       THEN [@ EXCEPT !.img = PILImage(jpg.val, workers[w].img_id),
                                      !.pc = "transform"]
                       ELSE [@ EXCEPT !.out = jpg, !.pc = "done"]]
    /\ UNCHANGED <<module, self, disk, call, ret>>

\* if self.transform is not None: img = self.transform(img)[.squeeze_(0)]
StepTransform(w) ==
    /\ workers[w].pc = "transform"
    /\ workers' = [workers EXCEPT
            ![w].img = TransformStep(module, self, workers[w].img),
            ![w].pc = "target"]
    /\ UNCHANGED <<module, self, disk, call, ret>>

\* if self.target_transform is not None: target = self.target_transform(...)
StepTarget(w) ==
    /\ workers[w].pc = "target"
    /\ LET t == TargetStep(module, self, workers[w].target, workers[w].img)
       IN  workers' = [workers EXCEPT
                ![w] = IF IsOk(t) THEN [@ EXCEPT !.target = t.val, !.pc = "return"]
                       ELSE [@ EXCEPT !.out = t, !.pc = "done"]]
    /\ UNCHANGED <<module, self, disk, call, ret>>

\* return img, target
StepReturn(w) ==
    /\ workers[w].pc = "return"
    /\ workers' = [workers EXCEPT
            ![w].out = Ok([img |-> workers[w].img, target |-> workers[w].target]),
            ![w].pc = "done"]
    /\ UNCHANGED <<module, self, disk, call, ret>>

\* the caller has the result (or the exception); the worker is free again
Leave(w) ==
    /\ workers[w].pc = "done"
    /\ workers' = [workers EXCEPT ![w] = IdleFrame]
    /\ UNCHANGED <<module, self, disk, call, ret>>

NextWorkers ==
    \E w \in 1..NumWorkers :
        \/ Leave(w)
        \/ Enter(w)
        \/ StepId(w)
        \/ StepParse(w)
        \/ StepOpen(w)
        \/ StepTransform(w)
        \/ StepTarget(w)
        \/ StepReturn(w)

SpecWorkers == InitWorkers /\ [][NextWorkers]_vars

(*********************** what the claims speak about ***********************)
\* the <object> nodes of a tree, in document order
ObjectsOf(tree) == SelectSeq(tree.kids, LAMBDA e : e.tag = "object")

FieldText(obj, tag) ==
    (SelectSeq(obj.kids, LAMBDA e : e.tag = tag))[1].text

IsDifficult(obj) == FieldText(obj, "difficult") = <<"1">>

\* the class name of an object: its <name>, lower case, blanks trimmed
ClassName(obj) ==
    LET t == FieldText(obj, "name")
    IN  IF t = <<"c","a","t">> THEN <<"c","a","t">>
        ELSE IF t = <<" ","D","o","g"," ">> THEN <<"d","o","g">>
        ELSE t

\* the four numbers of an object's <bndbox> as written in the file
SourceBox(obj) ==
    LET bb == (SelectSeq(obj.kids, LAMBDA e : e.tag = "bndbox"))[1]
    IN  [i \in 1..4 |-> IntOf(bb.kids[i].text)]

\* the objects the keep-difficult policy keeps, in document order
KeptObjects(tree, keep) ==
    SelectSeq(ObjectsOf(tree), LAMBDA o : keep \/ ~IsDifficult(o))

InVocabulary(m, name) == \E i \in 1..Len(VOC_CLASSES(m)) : VOC_CLASSES(m)[i] = name

IndexOf(m, name) == (CHOOSE i \in 1..Len(VOC_CLASSES(m)) : VOC_CLASSES(m)[i] = name) - 1

\* record rec is the one the module's parser owes for object obj
RecordIsOf(m, rec, obj, W, H) ==
    /\ Len(rec) = 5
    /\ IF m = "voc"
       THEN /\ \A i \in 1..4 : rec[i] = PyInt(SourceBox(obj)[i] - 1)
            /\ rec[5] = PyStr(ClassName(obj))
       ELSE /\ rec[1] = PyFloat(SourceBox(obj)[1] - 1, W)
            /\ rec[2] = PyFloat(SourceBox(obj)[2] - 1, H)
            /\ rec[3] = PyFloat(SourceBox(obj)[3] - 1, W)
            /\ rec[4] = PyFloat(SourceBox(obj)[4] - 1, H)
            /\ rec[5] = PyInt(IndexOf(m, ClassName(obj)))

(********************************* C4 **************************************)
\* C4: whenever the parser returns, its output holds exactly one record per
\* kept object (kept: not difficult, or keep_difficult set), in the objects'
\* document order; a tree with no kept object gives the empty list, no error.
C4_OneRecordPerKeptObject ==
    ret.op = "parse" =>
        LET kept == KeptObjects(call.args.target, self.target_transform.keep_difficult)
        IN  /\ IsOk(ret.out) =>
                /\ Len(ret.out.val.list) = Len(kept)
                /\ \A i \in 1..Len(kept) :
                      RecordIsOf(module, ret.out.val.list[i], kept[i],
                                 call.args.W, call.args.H)
            /\ kept = <<>> => ret.out = Ok(PyList(<<>>))

\* two objects, the first difficult and dropped, the second kept and emitted
C4_Witness ==
    /\ ret.op = "parse"
    /\ ~self.target_transform.keep_difficult
    /\ Len(ObjectsOf(call.args.target)) = 2
    /\ IsDifficult(ObjectsOf(call.args.target)[1])
    /\ ~IsDifficult(ObjectsOf(call.args.target)[2])
    /\ IsOk(ret.out)
    /\ Len(ret.out.val.list) = 1

(********************************* C3 **************************************)
HasUnknown(m, objs) ==
    \E i \in 1..Len(objs) : ~InVocabulary(m, ClassName(objs[i]))

FileTree == disk.datasets.VOC2007["Annotations"][self.ids[call.args.index + 1]]

FileSize == disk.datasets.VOC2007["JPEGImages"][self.ids[call.args.index + 1]].size

\* the case of C1: get(0) with the annotation parser as target transform, on an
\* annotation of exactly one object, not difficult, of a vocabulary class
C1_Case ==
    /\ ret.op = "getitem"
    /\ call.args.index = 0
    /\ self.target_transform.kind = "AnnotationTransform"
    /\ Len(ObjectsOf(FileTree)) = 1
    /\ ~IsDifficult(ObjectsOf(FileTree)[1])
    /\ InVocabulary(module, ClassName(ObjectsOf(FileTree)[1]))

C5_NormalizedByAnnotatedImage ==
    (/\ ret.op = "getitem"
     /\ module = "data.voc"
     /\ self.target_transform.kind = "AnnotationTransform"
     /\ IsOk(ret.out)) =>
        LET kept == KeptObjects(FileTree, self.target_transform.keep_difficult)
            recs == ret.out.val.target.list
        IN  /\ Len(recs) = Len(kept)
            /\ \A i \in 1..Len(kept) : \A k \in 1..4 :
                  recs[i][k].num * (IF k % 2 = 1 THEN FileSize[1] ELSE FileSize[2])
                    = (SourceBox(kept[i])[k] - 1) * recs[i][k].den

(********************************* C10 *************************************)
\* C10 as stated: the two hooks are applied independently; the image returned
\* is the input transform's output if one is configured (its leading axis of
\* size 1 dropped or not) and the decoded image otherwise, the annotation is the
\* target transform's output if one is configured and the parsed tree otherwise;
\* a configured target transform is applied also without an input transform.
C10_HooksIndependent ==
    ret.op = "getitem" =>
        LET raw == Load(self, disk, call.args.index).val
            T == ApplyTransform(self.transform, raw.img)
            chw == IF self.transform.kind = "None"
                   THEN <<3, raw.img.size[2], raw.img.size[1]>>
                   ELSE Squeeze0(T).shape
            want == IF self.target_transform.kind = "None" THEN Ok(raw.target)
                    ELSE AnnotationTransformCall(module, self.target_transform,
                                                 raw.target, chw[1], chw[2], chw[3])
        IN  IsOk(want) =>
              /\ IsOk(ret.out)
              /\ IF self.transform.kind = "None"
                 THEN ret.out.val.img = raw.img
                 ELSE ret.out.val.img \in {T, Squeeze0(T)}
              /\ ret.out.val.target = want.val

(********************************* C7 **************************************)
ManifestText == disk.datasets.VOC2007["ImageSets/Main"][Train]

\* C7: a dataset built from a manifest of K lines has length K, its identifier
\* at position i is the i-th line without its newline, get(i) resolves that
\* identifier for every i in [0, K), and this stays so after length, get and
\* the visualizer have run.
C7_IdsAreManifestLines ==
    LET lines == ManifestLines(ManifestText)
        K == LineCount(ManifestText)
    IN  /\ self.ids = lines
        /\ ret.op = "len" => ret.out = Ok(PyInt(K))
        /\ (ret.op \in {"getitem", "show"} /\ call.args.index \in 0..(K - 1)) =>
              /\ IsOk(ret.out)
              /\ ret.out.val.img.src = lines[call.args.index + 1]

\* a manifest of two lines, the second without a newline: get(1) resolves it
C7_Witness ==
    /\ ret.op = "getitem"
    /\ LineCount(ManifestText) = 2
    /\ ManifestText[Len(ManifestText)] # "\n"
    /\ call.args.index = 1
    /\ IsOk(ret.out)
    /\ ret.out.val.img.src = <<"b">>

(********************************* C8 **************************************)
PartCount(obj) == Len(SelectSeq(obj.kids, LAMBDA e : e.tag = "part"))

\* the position among the boxes drawn of object j of the tree, all parts drawn
RECURSIVE DrawnBefore(_, _)
DrawnBefore(objs, j) ==
    IF j = 1 THEN 0 ELSE DrawnBefore(objs, j - 1) + 1 + PartCount(objs[j - 1])

C8_Case ==
    /\ ret.op = "show"
    /\ module = "data.voc"
    /\ call.args.subparts
    /\ IsOk(ret.out)

\* C8 as stated: with sub-parts requested, every part box of every object is
\* outlined in a palette color other than that of its parent object's box.
C8_PartColorDiffers ==
    C8_Case =>
        LET objs == ObjectsOf(FileTree)
            drawn == ret.out.val.drawn
        IN  \A j \in 1..Len(objs) : \A k \in 1..PartCount(objs[j]) :
              drawn[DrawnBefore(objs, j) + 1 + k].outline
                # drawn[DrawnBefore(objs, j) + 1].outline

\* C8 amended: with sub-parts requested, the k-th part box of an object is
\* outlined in a palette color other than that of its parent object's box
\* exactly when k is not a multiple of 6, the size of the palette: the first
\* five parts differ from the parent, the sixth has the parent's color again.
C8_PartColorDiffersUpToFive ==
    C8_Case =>
        LET objs == ObjectsOf(FileTree)
            drawn == ret.out.val.drawn
        IN  /\ Len(drawn) = DrawnBefore(objs, Len(objs) + 1)
            /\ \A j \in 1..Len(objs) : \A k \in 1..PartCount(objs[j]) :
                  (drawn[DrawnBefore(objs, j) + 1 + k].outline
                     # drawn[DrawnBefore(objs, j) + 1].outline)
                  <=> (k % 6 # 0)

\* an object with six parts after an object with one: nine boxes drawn
C8_Witness ==
    /\ C8_Case
    /\ Len(ObjectsOf(FileTree)) = 2
    /\ PartCount(ObjectsOf(FileTree)[1]) = 1
    /\ PartCount(ObjectsOf(FileTree)[2]) = 6
    /\ Len(ret.out.val.drawn) = 9

(******************************* C2 and C9 *********************************)
Batch == call.args.batch

SameShapes == \A i, j \in 1..Len(Batch) : Batch[i][1].shape = Batch[j][1].shape

\* C2 as stated: for N >= 1 samples whose images share one shape and whose
\* i-th annotation list holds k_i >= 0 records of five numbers, the collator
\* returns an image batch of leading dimension N and N annotation entries, the
\* i-th of shape (k_i, 5) (or an empty marker when k_i = 0) and holding the
\* i-th sample's records.
C2_CollatesAnyCounts ==
    (ret.op = "collate" /\ Len(Batch) >= 1 /\ SameShapes) =>
        /\ IsOk(ret.out)
        /\ ret.out.val.imgs.shape = <<Len(Batch)>> \o Batch[1][1].shape
        /\ Len(ret.out.val.targets) = Len(Batch)
        /\ \A i \in 1..Len(Batch) :
              LET k == Len(Batch[i][2].list)
              IN  /\ ret.out.val.targets[i].shape \in
                        (IF k = 0 THEN {<<0, 5>>, <<0>>} ELSE {<<k, 5>>})
                  /\ ret.out.val.targets[i].src = Batch[i][2].list

\* C9: whenever two images of the batch differ in shape the collator fails
\* with an error and returns no batch.
C9_FailsOnShapeMismatch ==
    (ret.op = "collate" /\ ~SameShapes) =>
        /\ ~IsOk(ret.out)
        /\ ret.out.val = <<>>

\* two samples with a record each and images of different shapes: the stack
\* of the images fails
C9_Witness ==
    /\ ret.op = "collate"
    /\ Len(Batch) = 2
    /\ Batch[1][1].shape # Batch[2][1].shape
    /\ \A i \in 1..2 : Len(Batch[i][2].list) >= 1
    /\ ret.out.error = "RuntimeError"

(********************************* C6 **************************************)
\* every call that has ended holds the result the same call gives run alone
ResultAsAlone ==
    \A w \in 1..NumWorkers :
        workers[w].pc = "done" =>
            workers[w].out = VOCDetectionGetItem(module, self, disk, workers[w].index)

\* C6: get calls of independent workers, in any interleaving, leave the
\* identifier list, the class-to-index mapping and the path templates (all in
\* the dataset object) and the files unchanged, and each call returns what it
\* returns when it runs alone.
C6_GetIsolated ==
    /\ []ResultAsAlone
    /\ [][self' = self /\ disk' = disk]_vars

\* two calls for different samples that ran interleaved have both returned
C6_Witness ==
    /\ workers[1].pc = "done"
    /\ workers[2].pc = "done"
    /\ workers[1].index # workers[2].index
    /\ IsOk(workers[1].out)
    /\ IsOk(workers[2].out)

====
